---- MODULE Spec2Model ----
(***************************************************************************)
(* Model of the scheduled ingestion jobs of index.js (periodic, daily and  *)
(* monthly CronJob callbacks) and of the TTL cache used by the web API.    *)
(*                                                                         *)
(* The job families and routes share no state, so each is explored         *)
(* under its own specification over the same variables:                    *)
(*   Spec          the daily job (schedule sync + backlog drain)           *)
(*   SpecPeriodic  the 2-hour league job and the monthly X-ranking job     *)
(*   SpecCache     Cache.wrap as used by GET /distributions/x              *)
(*   SpecRecords   GET /records and its file-backed memo, GET /static      *)
(* A promise's reactions (then/catch callbacks, the continuation of an     *)
(* await) run as microtasks before any other I/O callback, so each action  *)
(* below is one settlement of an external operation together with all the  *)
(* synchronous code that runs up to the next await.                        *)
(***************************************************************************)
EXTENDS Integers, Sequences, FiniteSets, TLC

VARIABLES
  flag,        \* config.DO_NOT_FETCH_SPLATFEST
  alive,       \* the node process is running
  day,         \* number of daily cron boundaries (00:23 UTC) passed
  msInDay,     \* milliseconds elapsed since the last daily boundary
  schedule,    \* Event Schedule Entries persisted (splatfest ids)
  writes,      \* per splatfest: number of times its ranking was persisted
  daily,       \* per daily run: the state of the async callback
  inflight,    \* fetchSplatfestRanking calls in flight: <<run, position>>
  staleFetch,  \* ids for which a fetch was issued after they were ingested
  unhandled,   \* daily runs whose callback promise rejected (nobody catches)
  periodic,    \* per periodic (2-hour) run: the promises of the callback
  monthly,     \* per monthly-job run: state of fetchXRanking and its report
  cnow,        \* wall-clock time of the web process, in seconds
  advances,    \* number of clock steps taken (bounds the exploration)
  boot,        \* number of restarts of the web process
  disk,        \* cache directory: per key the stored entry, or NoEntry
  req,         \* per HTTP request: state of its Cache.wrap call
  latest,      \* month of the latest X-ranking start time in the database
  files,       \* cache/weapons-x-top-players.<month>.json, per month
  rreq,        \* per GET /records request: state of the handler
  static       \* what the last GET /static/<file> read found in the file

dailyVars == <<flag, alive, day, msInDay, schedule, writes, daily, inflight,
               staleFetch, unhandled>>

cronVars == <<periodic, monthly>>

cacheVars == <<cnow, advances, boot, disk, req>>

recordsVars == <<latest, files, rreq, static>>

vars == <<dailyVars, cronVars, cacheVars, recordsVars>>

----------------------------------------------------------------------------
(* Bounds of the exploration *)
MaxDay == 2
MaxTicks == 2
MaxEvents == 2
MaxPeriodic == 1
MaxMonthly == 1
MaxReq == 2
MaxAdvance == 3
MaxBoot == 1
MaxSlot == 2
MaxMonth == 2
MaxRecords == 2

(* Program constants *)
WaitMs == 60000
DayMs == 86400000
TwoHoursMs == 7200000

Events == 1..MaxEvents
Runs == 1..MaxDay
PRuns == 1..MaxPeriodic
MRuns == 1..MaxMonthly
Reqs == 1..MaxReq
Keys == {"distributions_x", "distributions_league"}
TickMs == WaitMs \div 2

None == 0 - 1

\* wall-clock time in ms since the daily boundary of day 0
now == day * DayMs + msInDay

\* Ingestion Records: splatfests with persisted rankings
ingested == {e \in Events : writes[e] > 0}

RECURSIVE SortedSeq(_)
SortedSeq(S) ==
  IF S = {} THEN <<>>
  ELSE LET m == CHOOSE x \in S : \A y \in S : x <= y
       IN <<m>> \o SortedSeq(S \ {m})

\* query.queryUnfetchedSplatfests: schedule entries without rankings, oldest first
queryUnfetchedSplatfests == SortedSeq(schedule \ ingested)

\* outcomes of an external call: fulfilled, rejected with NintendoAPIError,
\* rejected with any other error
Failures == {"expected", "unexpected"}
Outcomes == {"ok"} \cup Failures

IdleRun ==
  [pc |-> "idle", sync |-> "none", queried |-> FALSE, backlog |-> <<>>,
   i |-> 0, wakeAt |-> None, outcome |-> <<>>, startedAt |-> None,
   settledAt |-> None]

IdlePeriodic ==
  [rot |-> "idle", rankT |-> "idle", rankP |-> "idle", tweet |-> "notcalled",
   batch |-> <<>>, join |-> "pending", report |-> {}, firedAt |-> None,
   ids |-> <<>>]

NoEntry == [value |-> None, storedAt |-> None, ttl |-> None]

IdleReq ==
  [pc |-> "idle", key |-> "none", boot |-> None, calledAt |-> None, seen |-> NoEntry,
   hit |-> FALSE, produced |-> FALSE, result |-> None]

Months == 1..MaxMonth

Records == 1..MaxRecords

NoFile == [state |-> "absent", value |-> None]

IdleRecords ==
  [pc |-> "idle", month |-> None, atStart |-> {}, checked |-> "none",
   cacheHit |-> FALSE, value |-> None, computed |-> FALSE, wrote |-> FALSE,
   error |-> "none"]

\* state after the process has started, apart from the configuration flag
Started ==
  /\ latest = 1
  /\ files = [m \in Months |-> NoFile]
  /\ rreq = [q \in Records |-> IdleRecords]
  /\ static = "none"
  /\ cnow = 0
  /\ advances = 0
  /\ boot = 0
  /\ disk = [k \in Keys |-> NoEntry]
  /\ req = [q \in Reqs |-> IdleReq]
  /\ periodic = [p \in PRuns |-> IdlePeriodic]
  /\ monthly = [m \in MRuns |-> "idle"]
  /\ alive = TRUE
  /\ day = 0
  /\ msInDay = 0
  /\ schedule = {}
  /\ writes = [e \in Events |-> 0]
  /\ daily = [r \in Runs |-> IdleRun]
  /\ inflight = {}
  /\ staleFetch = {}
  /\ unhandled = {}

\* config.DO_NOT_FETCH_SPLATFEST is read from the environment at startup
Init == Started /\ flag \in BOOLEAN

\* the flag is read by the daily job only
InitNoFlag == Started /\ flag = FALSE

----------------------------------------------------------------------------
(* The daily job *)

\* variant of wakeTime: the delay taken as 60 ms instead of 60000 ms
wakeTime_Seconds(t) == t + 60

\* wait(60000): the time at which the timer may fire
wakeTime(t) == t + WaitMs

\* one loop iteration up to its first await: log, call fetchSplatfestRanking
StartFetch(r, rec, pos) ==
  /\ daily' = [daily EXCEPT ![r] =
        [rec EXCEPT !.pc = "fetch", !.i = pos, !.startedAt = now,
                    !.wakeAt = None]]
  /\ inflight' = inflight \cup {<<r, pos>>}
  /\ staleFetch' = IF rec.backlog[pos] \in ingested
                   THEN staleFetch \cup {rec.backlog[pos]}
                   ELSE staleFetch

\* the callback returns or throws: its locals (timer, timestamps) are gone
Finished(rec, how) ==
  [rec EXCEPT !.pc = how, !.wakeAt = None, !.startedAt = None, !.settledAt = None]

\* an await threw: the async callback's promise rejects; CronJob attaches no
\* handler to it. Node either only warns or terminates the process.
Reject(r, rec) ==
  /\ daily' = [daily EXCEPT ![r] = Finished(rec, "rejected")]
  /\ unhandled' = unhandled \cup {r}
  /\ alive' \in BOOLEAN

\* the clock reaches 00:23 UTC and CronJob fires the daily callback, which runs
\* up to its first await
DailyTrigger ==
  /\ alive
  /\ day < MaxDay
  /\ day' = day + 1
  /\ msInDay' = 0
  /\ daily' = [daily EXCEPT ![day + 1].pc = IF flag THEN "skipped" ELSE "sync"]
  /\ UNCHANGED <<flag, alive, schedule, writes, inflight, staleFetch, unhandled>>
  /\ UNCHANGED <<cronVars, cacheVars, recordsVars>>

\* time passes while a wait(60000) timer is pending
Tick ==
  /\ alive
  /\ \E r \in Runs : daily[r].pc = "wait" /\ now < daily[r].wakeAt
  /\ msInDay + TickMs <= MaxTicks * TickMs
  /\ msInDay' = msInDay + TickMs
  /\ UNCHANGED <<flag, alive, day, schedule, writes, daily, inflight,
                 staleFetch, unhandled>>
  /\ UNCHANGED <<cronVars, cacheVars, recordsVars>>

\* fetchSplatfestSchedules() settles; on success the splatfests the remote
\* service has published so far (ids 1..k, in chronological order) are upserted
SyncSettles(r) ==
  /\ alive
  /\ daily[r].pc = "sync"
  /\ \E o \in Outcomes :
       IF o = "ok"
       THEN /\ \E k \in 0..MaxEvents : schedule' = schedule \cup (1..k)
            /\ daily' = [daily EXCEPT ![r].pc = "query", ![r].sync = "ok"]
            /\ UNCHANGED <<alive, unhandled>>
       ELSE /\ Reject(r, [daily[r] EXCEPT !.sync = "failed"])
            /\ UNCHANGED schedule
  /\ UNCHANGED <<flag, day, msInDay, writes, inflight, staleFetch>>
  /\ UNCHANGED <<cronVars, cacheVars, recordsVars>>

\* queryUnfetchedSplatfests() resolves; the loop starts or the run completes
QueryReturns(r) ==
  /\ alive
  /\ daily[r].pc = "query"
  /\ LET b == queryUnfetchedSplatfests
         rec == [daily[r] EXCEPT !.queried = TRUE, !.backlog = b,
                    !.outcome = [k \in 1..Len(b) |-> "none"]]
     IN IF Len(b) = 0
        THEN /\ daily' = [daily EXCEPT ![r] = Finished(rec, "done")]
             /\ UNCHANGED <<inflight, staleFetch>>
        ELSE StartFetch(r, rec, 1)
  /\ UNCHANGED <<flag, alive, day, msInDay, schedule, writes, unhandled>>
  /\ UNCHANGED <<cronVars, cacheVars, recordsVars>>

\* fetchSplatfestRanking(region, splatfest_id) settles
FetchSettles(r) ==
  /\ alive
  /\ daily[r].pc = "fetch"
  /\ LET pos == daily[r].i
         e == daily[r].backlog[pos]
     IN /\ inflight' = inflight \ {<<r, pos>>}
        /\ \E o \in Outcomes :
             LET rec == [daily[r] EXCEPT !.outcome[pos] = o,
                                         !.settledAt = now]
             IN IF o = "ok"
                THEN /\ writes' = [writes EXCEPT ![e] = @ + 1]
                     /\ daily' = [daily EXCEPT ![r] =
                           [rec EXCEPT !.pc = "wait", !.wakeAt = wakeTime(now)]]
                     /\ UNCHANGED <<alive, unhandled>>
                ELSE /\ Reject(r, rec)
                     /\ UNCHANGED writes
  /\ UNCHANGED <<flag, day, msInDay, schedule, staleFetch>>
  /\ UNCHANGED <<cronVars, cacheVars, recordsVars>>

\* the timer of wait(60000) fires; next iteration or end of the callback
WaitElapses(r) ==
  /\ alive
  /\ daily[r].pc = "wait"
  /\ now >= daily[r].wakeAt
  /\ IF daily[r].i < Len(daily[r].backlog)
     THEN StartFetch(r, daily[r], daily[r].i + 1)
     ELSE /\ daily' = [daily EXCEPT ![r] = Finished(daily[r], "done")]
          /\ UNCHANGED <<inflight, staleFetch>>
  /\ UNCHANGED <<flag, alive, day, msInDay, schedule, writes, unhandled>>
  /\ UNCHANGED <<cronVars, cacheVars, recordsVars>>

DailyNext ==
  \/ DailyTrigger
  \/ Tick
  \/ \E r \in Runs : SyncSettles(r)
  \/ \E r \in Runs : QueryReturns(r)
  \/ \E r \in Runs : FetchSettles(r)
  \/ \E r \in Runs : WaitElapses(r)

Spec == Init /\ [][DailyNext]_vars

----------------------------------------------------------------------------
(* The periodic (2-hour) job and the monthly job *)

\* variant of LeagueRankingsFulfilled: settles with the first fulfilled fetch
LeagueRankingsFulfilled_Any(rec) == rec.rankT = "ok" \/ rec.rankP = "ok"

\* Promise.all(tasks) of fetchLeagueRankings: fulfilled once both fetches are
LeagueRankingsFulfilled(rec) == rec.rankT = "ok" /\ rec.rankP = "ok"

\* variant of JoinFulfilled: the ranking family is left out of the join
JoinFulfilled_RotationOnly(rec) == rec.rot = "ok"

\* the outer Promise.all([fetchStageRotations(), fetchLeagueRankings().then(..)])
JoinFulfilled(rec) == rec.rot = "ok" /\ rec.tweet = "ok"

\* .then(() => console.log('Successfully completed cron job ...'))
ThenReport(rec) ==
  IF rec.join = "pending" /\ JoinFulfilled(rec)
  THEN [rec EXCEPT !.join = "fulfilled", !.report = {[kind |-> "success", family |-> "all"]}]
  ELSE rec

\* .catch((err) => ...): Promise.all rejects with the first rejection only;
\* a NintendoAPIError goes to console.log, anything else to console.error
CatchReport(rec, family, o) ==
  IF rec.join = "pending"
  THEN [rec EXCEPT !.join = "rejected",
          !.report = {[kind |-> IF o = "expected" THEN "log" ELSE "error",
                       family |-> family]}]
  ELSE rec

\* '20 0-22/2 * * *': minute 20 of every even UTC hour, in ms
CronTime(slot) == slot * TwoHoursMs + 20 * 60 * 1000

\* util.calculateLeagueDate: the UTC hour stamp (YYMMDDHH) of a time, here
\* the number of the hour the time falls in
calculateLeagueDate(t) == t \div (TwoHoursMs \div 2)

\* variant of leagueDate: computed from the current time itself
leagueDate_NoOffset(t) == calculateLeagueDate(t)

\* const leagueDate = calculateLeagueDate(new Date() - 120 * 60 * 1000)
leagueDate(t) == calculateLeagueDate(t - 120 * 60 * 1000)

\* [`${leagueDate}T`, `${leagueDate}P`]
leagueIds(d) == <<[date |-> d, group |-> "T"], [date |-> d, group |-> "P"]>>

\* CronJob fires the periodic callback at time t: the league date is computed
\* and the three fetches are started. The first firing after the process
\* start falls on any slot, later firings on the following slots.
PeriodicTrigger(p) ==
  /\ alive
  /\ periodic[p].rot = "idle"
  /\ \A q \in PRuns : q < p => periodic[q].rot # "idle"
  /\ \E slot \in 0..MaxSlot :
       LET t == IF p = 1 THEN CronTime(slot)
                ELSE periodic[p - 1].firedAt + TwoHoursMs
       IN periodic' = [periodic EXCEPT ![p].rot = "pending",
                          ![p].rankT = "pending", ![p].rankP = "pending",
                          ![p].firedAt = t, ![p].ids = leagueIds(leagueDate(t))]
  /\ UNCHANGED <<dailyVars, monthly, cacheVars, recordsVars>>

\* fetchStageRotations() settles
RotationSettles(p) ==
  /\ alive
  /\ periodic[p].rot = "pending"
  /\ \E o \in Outcomes :
       LET rec == [periodic[p] EXCEPT !.rot = o]
       IN periodic' = [periodic EXCEPT ![p] =
            IF o = "ok" THEN ThenReport(rec) ELSE CatchReport(rec, "rotation", o)]
  /\ UNCHANGED <<dailyVars, monthly, cacheVars, recordsVars>>

\* fetchLeagueRanking(leagueId) settles for sub-group g; when the inner
\* Promise.all is fulfilled tweetLeagueUpdates is called with both results
RankingSettles(p, g) ==
  /\ alive
  /\ IF g = "T" THEN periodic[p].rankT = "pending" ELSE periodic[p].rankP = "pending"
  /\ \E o \in Outcomes :
       LET rec == IF g = "T" THEN [periodic[p] EXCEPT !.rankT = o]
                             ELSE [periodic[p] EXCEPT !.rankP = o]
       IN periodic' = [periodic EXCEPT ![p] =
            IF o = "ok"
            THEN IF LeagueRankingsFulfilled(rec) /\ rec.tweet = "notcalled"
                 THEN [rec EXCEPT !.tweet = "pending", !.batch = <<"T", "P">>]
                 ELSE rec
            ELSE CatchReport(rec, "ranking", o)]
  /\ UNCHANGED <<dailyVars, monthly, cacheVars, recordsVars>>

\* tweetLeagueUpdates(results) settles; its promise is the second member of
\* the outer Promise.all
TweetSettles(p) ==
  /\ alive
  /\ periodic[p].tweet = "pending"
  /\ \E o \in {"ok", "failed"} :
       LET rec == [periodic[p] EXCEPT !.tweet = o]
       IN periodic' = [periodic EXCEPT ![p] =
            IF o = "ok" THEN ThenReport(rec) ELSE CatchReport(rec, "notify", o)]
  /\ UNCHANGED <<dailyVars, monthly, cacheVars, recordsVars>>

\* CronJob fires the monthly callback: fetchXRanking(year, month) is started
MonthlyTrigger(m) ==
  /\ alive
  /\ monthly[m] = "idle"
  /\ \A q \in MRuns : q < m => monthly[q] # "idle"
  /\ monthly' = [monthly EXCEPT ![m] = "pending"]
  /\ UNCHANGED <<dailyVars, periodic, cacheVars, recordsVars>>

\* fetchXRanking settles: .then logs the success, .catch logs the failure
XRankingSettles(m) ==
  /\ alive
  /\ monthly[m] = "pending"
  /\ \E o \in Outcomes :
       monthly' = [monthly EXCEPT ![m] = IF o = "ok" THEN "fetched" ELSE "failed"]
  /\ UNCHANGED <<dailyVars, periodic, cacheVars, recordsVars>>

PeriodicNext ==
  \/ \E p \in PRuns : PeriodicTrigger(p)
  \/ \E p \in PRuns : RotationSettles(p)
  \/ \E p \in PRuns, g \in {"T", "P"} : RankingSettles(p, g)
  \/ \E p \in PRuns : TweetSettles(p)
  \/ \E m \in MRuns : MonthlyTrigger(m)
  \/ \E m \in MRuns : XRankingSettles(m)

SpecPeriodic == InitNoFlag /\ [][PeriodicNext]_vars

----------------------------------------------------------------------------
(* The TTL cache behind GET /distributions/x and GET /distributions/league *)

TtlX == 86400
TtlLeague == 86400

\* variant of RouteTtl: the ttl given in milliseconds
RouteTtl_Millis(key) == 86400 * 1000

\* the { ttl } option each route passes to Cache.wrap
RouteTtl(key) == IF key = "distributions_x" THEN TtlX ELSE TtlLeague

\* the JSON a producer computes from the ranking tables; each invocation's
\* result is told apart by the request that ran it
Payload(q) == q

\* an entry is served while now - storedAt < ttl
Fresh(entry, t) == entry # NoEntry /\ t - entry.storedAt < entry.ttl

\* a request reaches Cache.wrap(key, producer, { ttl }): a fresh entry is
\* returned, otherwise the producer is invoked
WrapCall(q, key) ==
  /\ alive
  /\ req[q].pc = "idle"
  /\ \A o \in Reqs : o < q => req[o].pc # "idle"
  /\ LET rec == [req[q] EXCEPT !.key = key, !.boot = boot, !.calledAt = cnow,
                                !.seen = disk[key]]
     IN IF Fresh(disk[key], cnow)
        THEN req' = [req EXCEPT ![q] =
                  [rec EXCEPT !.pc = "done", !.hit = TRUE, !.result = disk[key].value]]
        ELSE req' = [req EXCEPT ![q] =
                  [rec EXCEPT !.pc = "producing", !.produced = TRUE]]
  /\ UNCHANGED <<recordsVars, dailyVars, cronVars, cnow, advances, boot, disk>>

\* the producer resolves: the result is stored with storedAt = now and returned
ProducerResolves(q) ==
  /\ alive
  /\ req[q].pc = "producing"
  /\ disk' = [disk EXCEPT ![req[q].key] =
        [value |-> Payload(q), storedAt |-> cnow, ttl |-> RouteTtl(req[q].key)]]
  /\ req' = [req EXCEPT ![q].pc = "done", ![q].result = Payload(q)]
  /\ UNCHANGED <<recordsVars, dailyVars, cronVars, cnow, advances, boot>>

\* the producer rejects: the error propagates, nothing is stored
ProducerRejects(q) ==
  /\ alive
  /\ req[q].pc = "producing"
  /\ req' = [req EXCEPT ![q].pc = "failed"]
  /\ UNCHANGED <<recordsVars, dailyVars, cronVars, cnow, advances, boot, disk>>

\* the process is restarted: requests in flight are lost, the disk store stays
Restart ==
  /\ alive
  /\ boot < MaxBoot
  /\ boot' = boot + 1
  /\ req' = [q \in Reqs |->
        IF req[q].pc = "producing" THEN [req[q] EXCEPT !.pc = "aborted"] ELSE req[q]]
  /\ UNCHANGED <<recordsVars, dailyVars, cronVars, cnow, advances, disk>>

ClockSteps == {1, 86400 - 1}

CacheTick ==
  /\ advances < MaxAdvance
  /\ \E d \in ClockSteps : cnow' = cnow + d
  /\ advances' = advances + 1
  /\ UNCHANGED <<recordsVars, dailyVars, cronVars, boot, disk, req>>

CacheNext ==
  \/ \E q \in Reqs, key \in Keys : WrapCall(q, key)
  \/ \E q \in Reqs : ProducerResolves(q)
  \/ \E q \in Reqs : ProducerRejects(q)
  \/ Restart
  \/ CacheTick

SpecCache == InitNoFlag /\ [][CacheNext]_vars

----------------------------------------------------------------------------
\* GET /records and its file-backed memo of the weapons' top players

\* fs.writeFileSync blocks the JavaScript thread: no handler code runs while
\* a write is under way
Blocked == \E q \in Records : rreq[q].pc = "writing"

\* weaponTopPlayers computed by request q from the query results
weaponTopPlayers(q) == q

\* if (fs.existsSync(cachePath)): a file of any content exists
existsSync(f) == f.state # "absent"

\* a request arrives; the handler calls queryLatestXRankingStartTime()
RecordsRequest(q) ==
  /\ ~Blocked
  /\ rreq[q].pc = "idle"
  /\ \A o \in Records : o < q => rreq[o].pc # "idle"
  /\ rreq' = [rreq EXCEPT ![q].pc = "latest",
                 ![q].atStart = {m \in Months : files[m].state # "absent"}]
  /\ UNCHANGED <<latest, files, static>>
  /\ UNCHANGED <<dailyVars, cronVars, cacheVars>>

\* queryLatestXRankingStartTime() resolves; the cache path is built and the
\* file is looked up: read and parsed if it exists, getWeaponIds() otherwise
LatestReturns(q) ==
  /\ ~Blocked
  /\ rreq[q].pc = "latest"
  /\ LET f == files[latest]
         rec == [rreq[q] EXCEPT !.month = latest, !.checked = f.state]
     IN rreq' = [rreq EXCEPT ![q] =
          IF existsSync(f)
          THEN IF f.state = "complete"
               THEN [rec EXCEPT !.pc = "rest", !.cacheHit = TRUE,
                                !.value = f.value]
               ELSE [rec EXCEPT !.pc = "failed", !.cacheHit = TRUE,
                                !.error = "parse"]
          ELSE [rec EXCEPT !.pc = "ids"]]
  /\ UNCHANGED <<latest, files, static>>
  /\ UNCHANGED <<dailyVars, cronVars, cacheVars>>

\* getWeaponIds() resolves; queryWeaponTopPlayers is started for every weapon
IdsReturn(q) ==
  /\ ~Blocked
  /\ rreq[q].pc = "ids"
  /\ rreq' = [rreq EXCEPT ![q].pc = "players"]
  /\ UNCHANGED <<latest, files, static>>
  /\ UNCHANGED <<dailyVars, cronVars, cacheVars>>

\* Promise.all(weaponIds.map(queryWeaponTopPlayers)) resolves; the records
\* are mapped and fs.writeFileSync opens the cache path, truncating it
PlayersReturn(q) ==
  /\ ~Blocked
  /\ rreq[q].pc = "players"
  /\ rreq' = [rreq EXCEPT ![q].pc = "writing", ![q].computed = TRUE,
                          ![q].value = weaponTopPlayers(q)]
  /\ files' = [files EXCEPT ![rreq[q].month] =
                 [state |-> "partial", value |-> None]]
  /\ UNCHANGED <<latest, static>>
  /\ UNCHANGED <<dailyVars, cronVars, cacheVars>>

\* fs.writeFileSync has written all of the data and returns
WriteCompletes(q) ==
  /\ rreq[q].pc = "writing"
  /\ rreq' = [rreq EXCEPT ![q].pc = "rest", ![q].wrote = TRUE]
  /\ files' = [files EXCEPT ![rreq[q].month] =
                 [state |-> "complete", value |-> rreq[q].value]]
  /\ UNCHANGED <<latest, static>>
  /\ UNCHANGED <<dailyVars, cronVars, cacheVars>>

\* fs.writeFileSync throws after the file was opened (disk full, I/O error):
\* what was written so far stays in the file
WriteFails(q) ==
  /\ rreq[q].pc = "writing"
  /\ rreq' = [rreq EXCEPT ![q].pc = "failed", ![q].error = "write"]
  /\ UNCHANGED <<latest, files, static>>
  /\ UNCHANGED <<dailyVars, cronVars, cacheVars>>

\* the remaining queries of the handler resolve; res.json sends the response
RestReturns(q) ==
  /\ ~Blocked
  /\ rreq[q].pc = "rest"
  /\ rreq' = [rreq EXCEPT ![q].pc = "responded"]
  /\ UNCHANGED <<latest, files, static>>
  /\ UNCHANGED <<dailyVars, cronVars, cacheVars>>

\* one of the awaited database queries rejects; wrapPromise passes it on
QueryRejects(q) ==
  /\ ~Blocked
  /\ rreq[q].pc \in {"latest", "ids", "players", "rest"}
  /\ rreq' = [rreq EXCEPT ![q].pc = "failed", ![q].error = "db"]
  /\ UNCHANGED <<latest, files, static>>
  /\ UNCHANGED <<dailyVars, cronVars, cacheVars>>

\* the monthly job stores a newer X ranking: the latest start time moves on
XRankingStored ==
  /\ latest < MaxMonth
  /\ latest' = latest + 1
  /\ UNCHANGED <<files, rreq, static>>
  /\ UNCHANGED <<dailyVars, cronVars, cacheVars>>

\* app.use('/static', express.static('cache')): the file is read on a
\* thread-pool thread, which runs whether or not the JavaScript thread is
\* inside writeFileSync
StaticRead(m) ==
  /\ static' = files[m].state
  /\ UNCHANGED <<latest, files, rreq>>
  /\ UNCHANGED <<dailyVars, cronVars, cacheVars>>

RecordsNext ==
  \/ \E q \in Records : RecordsRequest(q)
  \/ \E q \in Records : LatestReturns(q)
  \/ \E q \in Records : IdsReturn(q)
  \/ \E q \in Records : PlayersReturn(q)
  \/ \E q \in Records : WriteCompletes(q)
  \/ \E q \in Records : WriteFails(q)
  \/ \E q \in Records : RestReturns(q)
  \/ \E q \in Records : QueryRejects(q)
  \/ XRankingStored
  \/ \E m \in Months : StaticRead(m)

SpecRecords == InitNoFlag /\ [][RecordsNext]_vars

----------------------------------------------------------------------------
(* Properties of the daily job, checked under Spec *)

Ended(r) == daily[r].pc \in {"done", "rejected"}

\* C1: in a daily run that has ended, a failed fetch of backlog item i did not
\* halt the loop: every item after i was fetched in that run, the successful
\* ones have an Ingestion Record.
C1_FailureDoesNotHaltLoop ==
  \A r \in Runs : Ended(r) /\ daily[r].queried =>
    \A i \in 1..Len(daily[r].backlog) :
      daily[r].outcome[i] \in Failures =>
        \A j \in (i + 1)..Len(daily[r].backlog) :
          /\ daily[r].outcome[j] # "none"
          /\ daily[r].outcome[j] = "ok" => daily[r].backlog[j] \in ingested

\* C2: within one daily run at most one backlog fetch is in flight, a fetch is
\* in flight only when every earlier item has settled, and the fetch of item
\* i+1 starts no earlier than 60 seconds after the fetch of item i settled.
C2_SequentialDelaySeparated ==
  \A r \in Runs :
    /\ Cardinality({f \in inflight : f[1] = r}) <= 1
    /\ \A f \in inflight : f[1] = r =>
          /\ daily[r].outcome[f[2]] = "none"
          /\ \A q \in 1..(f[2] - 1) : daily[r].outcome[q] # "none"
    /\ daily[r].pc = "fetch" /\ daily[r].i > 1 =>
          daily[r].startedAt >= daily[r].settledAt + 60 * 1000

C2_Witness ==
  \E r \in Runs :
    /\ daily[r].pc = "fetch" /\ daily[r].i = 2
    /\ <<r, 2>> \in inflight
    /\ daily[r].startedAt = daily[r].settledAt + 60 * 1000

\* C3: a triggered run performs neither phase when the flag is set; with the
\* flag unset the backlog is computed only after the schedule sync settled,
\* and a run that has ended has computed its backlog even if the sync failed.
C3_BothPhasesRun ==
  \A r \in Runs : daily[r].pc # "idle" =>
    /\ flag => daily[r].pc = "skipped" /\ daily[r].sync = "none" /\ ~daily[r].queried
    /\ ~flag =>
          /\ daily[r].queried => daily[r].sync # "none"
          /\ Ended(r) => daily[r].queried

\* C4: every event of a run's backlog is attempted in that run whatever
\* happened to the items before it, and an item whose fetch failed in run r
\* is, once run r+1 has ended, ingested or has been fetched again by run r+1.
C4_FailedItemRetriedEveryRun ==
  /\ \A r \in Runs : Ended(r) /\ daily[r].queried =>
        \A j \in 1..Len(daily[r].backlog) : daily[r].outcome[j] # "none"
  /\ \A r \in Runs : (r + 1) \in Runs /\ Ended(r) /\ Ended(r + 1) =>
        \A i \in 1..Len(daily[r].backlog) :
          daily[r].outcome[i] \in Failures =>
            \/ daily[r].backlog[i] \in ingested
            \/ \E j \in 1..Len(daily[r + 1].backlog) :
                  /\ daily[r + 1].backlog[j] = daily[r].backlog[i]
                  /\ daily[r + 1].outcome[j] # "none"

\* C5: no Ingestion Record is written twice, and no fetch is issued for a
\* splatfest that already has its Ingestion Record.
C5_AtMostOnceSkippedBeforeFetch ==
  /\ \A e \in Events : writes[e] <= 1
  /\ staleFetch = {}

\* C9: no error leaves a job's callback unhandled, and the process keeps
\* running so that later triggers fire.
C9_NoErrorEscapesCallback == unhandled = {} /\ alive

----------------------------------------------------------------------------
(* Properties of the periodic job, checked under SpecPeriodic *)

LeagueRankingsFulfilledBoth(rec) == rec.rankT = "ok" /\ rec.rankP = "ok"

RankingFamily == {"ranking", "notify"}

RotationFailed(rec) == rec.rot \in Failures
RankingFailed(rec) ==
  rec.rankT \in Failures \/ rec.rankP \in Failures \/ rec.tweet = "failed"

Settled(rec) ==
  /\ rec.rot \in Outcomes /\ rec.rankT \in Outcomes /\ rec.rankP \in Outcomes
  /\ rec.tweet # "pending"

SuccessReport == {[kind |-> "success", family |-> "all"]}

\* C6: tweetLeagueUpdates is invoked only in a run whose two sub-group fetches
\* both succeeded, and it receives both results as one batch.
C6_NotifyOnlyAfterBothRankings ==
  \A p \in PRuns : periodic[p].tweet # "notcalled" =>
    /\ periodic[p].rankT = "ok" /\ periodic[p].rankP = "ok"
    /\ periodic[p].batch = <<"T", "P">>

C6_Witness ==
  \E p \in PRuns : periodic[p].tweet = "ok" /\ periodic[p].batch = <<"T", "P">>

\* C13: every periodic run issues exactly two ranking fetches, for the ids
\* D+'T' and D+'P' in that order, with one D, the league date of the trigger
\* time minus 120 minutes, which is never the league date of the trigger
\* time itself.
C13_IdsFromTwoHoursAgo ==
  \A p \in PRuns : periodic[p].rot # "idle" =>
    LET t == periodic[p].firedAt
        D == (t - 7200000) \div 3600000
    IN /\ Len(periodic[p].ids) = 2
       /\ periodic[p].ids[1] = [date |-> D, group |-> "T"]
       /\ periodic[p].ids[2] = [date |-> D, group |-> "P"]
       /\ D # t \div 3600000
       /\ periodic[p].rankT # "idle" /\ periodic[p].rankP # "idle"

C13_Witness ==
  \E p \in PRuns :
    /\ periodic[p].firedAt = CronTime(1)
    /\ periodic[p].ids = leagueIds(0)
    /\ periodic[p].rankT = "ok" /\ periodic[p].rankP = "ok"

\* C7 (as stated): once a run has settled, the failure of each family that
\* failed is reported.
C7_ReportedPerFamily ==
  \A p \in PRuns : Settled(periodic[p]) =>
    /\ RotationFailed(periodic[p]) =>
          \E e \in periodic[p].report : e.family = "rotation"
    /\ RankingFailed(periodic[p]) =>
          \E e \in periodic[p].report : e.family \in RankingFamily

\* C7 (amended): every run starts both families; rankings that were both
\* fetched are notified whatever the rotation fetch did; the run makes at most
\* one report: the success report only if the rotation fetch, both ranking
\* fetches and the notification succeeded, otherwise one failure report, of a
\* family that failed.
C7_IndependentFamiliesOneReport ==
  \A p \in PRuns :
    LET rec == periodic[p] IN
    /\ (rec.rot = "idle") <=> (rec.rankT = "idle" /\ rec.rankP = "idle")
    /\ LeagueRankingsFulfilledBoth(rec) => rec.tweet # "notcalled"
    /\ Cardinality(rec.report) <= 1
    /\ rec.report = SuccessReport =>
          rec.rot = "ok" /\ rec.rankT = "ok" /\ rec.rankP = "ok" /\ rec.tweet = "ok"
    /\ RotationFailed(rec) \/ RankingFailed(rec) =>
          \E e \in rec.report :
            /\ e.kind \in {"log", "error"}
            /\ e.family = "rotation" => RotationFailed(rec)
            /\ e.family \in RankingFamily => RankingFailed(rec)

C7_Witness ==
  \E p \in PRuns :
    /\ RotationFailed(periodic[p])
    /\ periodic[p].tweet = "ok"
    /\ \E e \in periodic[p].report : e.family = "rotation"

\* C8: a run whose rotation fetch and both ranking fetches succeeded reports
\* success whether or not the notification failed.
C8_NotifyFailureKeepsSuccess ==
  \A p \in PRuns :
    /\ periodic[p].rot = "ok" /\ periodic[p].rankT = "ok" /\ periodic[p].rankP = "ok"
    /\ periodic[p].tweet \in {"ok", "failed"}
    => periodic[p].report = SuccessReport

----------------------------------------------------------------------------
(* Properties of the TTL cache, checked under SpecCache *)

Age(q) == req[q].calledAt - req[q].seen.storedAt

\* C10: a wrap call that finds an entry stored less than 86400 seconds ago
\* (in particular 86399 seconds ago) returns the stored value and does not
\* invoke the producer; one that finds an entry stored more than 86400
\* seconds ago (in particular 86401) invokes the producer and, when the
\* producer resolves, has superseded the entry; an entry is served only
\* while its own ttl has not elapsed, restarts included.
C10_TtlHitAndExpiry ==
  \A q \in Reqs : req[q].pc # "idle" /\ req[q].seen # NoEntry =>
    /\ Age(q) < 86400 =>
          req[q].hit /\ ~req[q].produced /\ req[q].result = req[q].seen.value
    /\ Age(q) = 86399 => req[q].hit
    /\ Age(q) > 86400 => ~req[q].hit /\ req[q].produced
    /\ Age(q) = 86401 => req[q].produced
    /\ Age(q) > 86400 /\ req[q].pc = "done" =>
          /\ disk[req[q].key] # req[q].seen
          /\ disk[req[q].key].storedAt >= req[q].calledAt
    /\ req[q].hit => Age(q) < req[q].seen.ttl

C10_Witness ==
  \E q \in Reqs :
    /\ req[q].key = "distributions_x"
    /\ Age(q) = 86401 /\ req[q].pc = "done" /\ req[q].produced
    /\ \E o \in Reqs :
          /\ req[o].pc = "done" /\ req[o].seen = NoEntry
          /\ req[o].boot < req[q].boot

C10_WitnessHit ==
  \E q \in Reqs :
    /\ req[q].key = "distributions_x" /\ Age(q) = 86399 /\ req[q].hit
    /\ \E o \in Reqs : req[o].pc = "done" /\ req[o].boot < req[q].boot

----------------------------------------------------------------------------
\* GET /records: claims about the file-backed memo

\* requests whose miss path is under way for month m: between the existence
\* check that found no file and the end of the write
Producing(m) ==
  {q \in Records : rreq[q].month = m /\ rreq[q].pc \in {"ids", "players", "writing"}}

\* C11 (as stated): at most one producer invocation per cache key is in
\* flight at any time, also when requests for the key overlap on a miss.
C11_SingleFlightPerKey == \A m \in Months : Cardinality(Producing(m)) <= 1

\* C12 (as stated): a reader of a cache record, be it a request's cache-hit
\* read or a read through /static, finds no record or a complete value,
\* never a partially written one.
C12_ReadersSeeNoneOrComplete ==
  /\ static # "partial"
  /\ \A q \in Records : rreq[q].checked # "partial"

\* values that completed writes have stored in the file for month m
Stored(m) ==
  {weaponTopPlayers(w) : w \in {q \in Records : rreq[q].wrote /\ rreq[q].month = m}}

\* C14 (as stated): a request that began when the file for the month it sees
\* existed takes no miss path (no computation, no write), and responds with
\* cacheHit = true and a stored value; a request that finds no file for its
\* month reports a miss and computes; a file holds only values computed for
\* its own month.
C14_MemoHitOncePresent ==
  /\ \A q \in Records :
       (rreq[q].month # None /\ rreq[q].month \in rreq[q].atStart) =>
         /\ rreq[q].pc \notin {"ids", "players", "writing"}
         /\ ~rreq[q].computed /\ ~rreq[q].wrote
         /\ rreq[q].error \notin {"parse", "write"}
         /\ rreq[q].pc \in {"rest", "responded"} =>
              rreq[q].cacheHit /\ rreq[q].value \in Stored(rreq[q].month)
  /\ \A q \in Records :
       rreq[q].checked = "absent" =>
         /\ ~rreq[q].cacheHit
         /\ rreq[q].pc \in {"rest", "responded"} => rreq[q].computed
  /\ \A m \in Months :
       files[m].state = "complete" =>
         \E w \in Records : rreq[w].month = m /\ files[m].value = weaponTopPlayers(w)

====
